---------------------------- MODULE Spec2Model ----------------------------
(***************************************************************************)
(* Model of src/openwebui-plugin/index.js (class DeepResearchPlugin): the  *)
(* per-chat session registry, the WebSocket transport with its reconnect   *)
(* timer, the stream-event dispatcher and the query admission gate.        *)
(*                                                                         *)
(* JavaScript runs every handler on one event loop: a handler runs without *)
(* interruption up to its next `await`, so every action below is one such  *)
(* run-to-completion segment.  A call `await webui.f(...)` issues the UI   *)
(* call f at once (it becomes the chat's last call in `ui`) and suspends   *)
(* the handler; the rest of the handler is a task in `tasks` that a later  *)
(* action resumes.  Handlers suspended on different promises resume in any *)
(* order.                                                                  *)
(*                                                                         *)
(* The host UI (webui), the clock, the network and the backend are the     *)
(* environment.  The backend (backend/app.py, not part of the sources      *)
(* modelled here) follows the stream protocol: for every query it admits   *)
(* it sends research_start, then token and tool events, then               *)
(* research_complete or research_error.                                    *)
(*                                                                         *)
(* Spec is the whole plugin.  The other specifications take the same      *)
(* actions and leave some environment inputs out: SpecQuery has one chat   *)
(* that is never deleted and whose connection stays open, SpecLife has no  *)
(* queries, SpecIds only creates chats, SpecReuse lets the host hand out a *)
(* deleted chat's identifier again, SpecFrames delivers frames of any kind *)
(* in any order, SpecOrphan delivers them on connections whose chat is no  *)
(* longer registered.                                                      *)
(***************************************************************************)
EXTENDS Naturals, Sequences, FiniteSets, Bags

\* ------------------------------------------------------------------ bounds
NumChats   == 2   \* chat identifiers the host UI hands out
MaxClock   == 2   \* readings of Date.now()
MaxSockets == 4   \* WebSocket objects ever constructed (a reconnect loop has no end)
MaxSubmits == 2   \* message:send notifications
MaxDeletes == 1   \* chat:delete notifications
MaxDrops   == 2   \* connections closed by the network or the backend
MaxStream  == 1   \* token / tool_start / tool_end events sent by the backend
MaxFrames  == 2   \* frames that arrive outside the backend's query protocol
MaxReplay  == 2   \* messages in the list a session_state event carries

Chats == 1 .. NumChats
Sids  == 0 .. MaxClock

VARIABLES
    now,        \* Date.now()
    chats,      \* host UI: chatId -> "free" (not handed out yet), "live", "deleted"
    sessions,   \* this.sessions: chatId -> session object (0: no entry)
    heap,       \* session objects {sessionId, websocket, status}
    sockets,    \* WebSocket objects, in order of construction
    timers,     \* pending setTimeout callbacks of ws.onclose (a bag)
    tasks,      \* handlers suspended on an await (a bag)
    ui,         \* chatId -> the last webui.* call made for that chat, and how
                \* many calls were made for it
    lastMsg,    \* host UI: chatId -> the kind of the last message of the chat,
                \* the message that webui.updateLastMessage addresses
    posts,      \* chatId -> number of POST /api/query requests issued
    bq,         \* backend: sessionId -> queries admitted and not yet finished
    evCount,    \* stream events delivered so far (numbers the events)
    delResult,  \* chatId -> the last finished cleanupSession: the outcome of its
                \* DELETE request and the session object it was called for
    budget,     \* how often each environment input has happened
    last        \* the operation of the last step and the chat it was for

vars == <<now, chats, sessions, heap, sockets, timers, tasks, ui, lastMsg,
          posts, bq, evCount, delResult, budget, last>>

\* ----------------------------------------------------------------- helpers
One(x) == SetToBag({x})

\* The state the handlers of the plugin read and write, as one record.
Cur == [sessions |-> sessions, heap |-> heap, sockets |-> sockets,
        timers |-> timers, tasks |-> tasks, ui |-> ui, lastMsg |-> lastMsg,
        posts |-> posts]

\* A suspended handler: what it is (kind), its chatId and session object, the
\* await it is suspended on (pc), the connection and number of the stream
\* event it handles, and for a session_state handler the messages that its
\* loop has not reached yet.
Task(kind, c, obj, pc, w, ev) ==
    [kind |-> kind, chat |-> c, obj |-> obj, pc |-> pc, ws |-> w, ev |-> ev,
     rest |-> << >>]

\* The n-th webui.* call for a chat: what was called, and the stream event
\* that caused it (connection ws, event number ev; 0 and 0 for a call that no
\* stream event caused).
Call(n, op, w, ev) == [n |-> n, op |-> op, ws |-> w, ev |-> ev]

\* The kind of message a webui call appends to the chat ("none": the call
\* appends no message).
MessageAdded(op) ==
    CASE op \in {"welcome", "init_error", "busy", "query_error"} -> "system"
      [] op \in {"user", "replay_user"} -> "user"
      [] op \in {"placeholder", "replay_assistant"} -> "assistant"
      [] op \in {"thinking_start", "thinking_end"} -> "thinking"
      [] OTHER -> "none"

Emit(st, c, op, w, ev) ==
    [st EXCEPT !.ui[c] = Call(@.n + 1, op, w, ev),
               !.lastMsg[c] = IF MessageAdded(op) = "none" THEN @
                              ELSE MessageAdded(op)]

\* this.sessions.has(chatId)
Has(st, c) == st.sessions[c] # 0

\* WebSocket.close(): a connecting or open socket starts closing and its
\* close event comes later; on a closing or closed socket it does nothing.
SocketClose(st, w) ==
    [st EXCEPT !.sockets[w].closeCalls = @ + 1,
               !.sockets[w].state = IF @ = "open" THEN "closing" ELSE @]

\* ------------------------------------------------------- connectWebSocket
\* connectWebSocket that does not close the connection it replaces.
ConnectWebSocket_NoClose(st, c, sid) ==
    IF st.sessions[c] = 0 THEN st
    ELSE [st EXCEPT
            !.sockets = Append(@, [chat |-> c, sid |-> sid,
                                   state |-> "open", closeCalls |-> 0]),
            !.heap[st.sessions[c]].websocket = Len(st.sockets) + 1]

ConnectWebSocket(st, c, sid) ==
    IF ~Has(st, c) THEN st
    ELSE LET o   == st.sessions[c]
             old == st.heap[o].websocket
             s1  == IF old # 0 THEN SocketClose(st, old) ELSE st
             w   == Len(s1.sockets) + 1
         IN  [s1 EXCEPT
                !.sockets = Append(@, [chat |-> c, sid |-> sid,
                                       state |-> "open", closeCalls |-> 0]),
                !.heap[o].websocket = w]

\* ws.onclose that never schedules a reconnect.
OnCloseHandler_NoReconnect(st, w) == st

\* ws.onclose
OnCloseHandler(st, w) ==
    LET c == st.sockets[w].chat
    IN  IF Has(st, c)
        THEN [st EXCEPT !.timers = @ (+) One([chat |-> c,
                                              sid |-> st.sockets[w].sid])]
        ELSE st

\* ---------------------------------------------------- createResearchChat
\* After `await fetch(POST /api/sessions)`: fetch rejects on a network error
\* only; a response that is not a success does not throw.
CreateResume(st, c, sid, outcome) ==
    IF outcome = "neterr"
    THEN Emit(st, c, "init_error", 0, 0)
    ELSE LET o  == Len(st.heap) + 1
             s1 == [st EXCEPT
                      !.heap = Append(@, [sessionId |-> sid, websocket |-> 0,
                                          status |-> "idle"]),
                      !.sessions[c] = o]
         IN  Emit(ConnectWebSocket(s1, c, sid), c, "welcome", 0, 0)

\* ------------------------------------------------- handleWebSocketMessage
\* The roles a buffered message can have, and the message lists a
\* session_state event can carry (a message is modelled by its role).
Roles == {"user", "assistant", "system"}

Replays == UNION {[1 .. n -> Roles] : n \in 0 .. MaxReplay}

\* The messages from the first one that the loop of session_state makes a UI
\* call for: it passes over a message that is neither user nor assistant
\* without awaiting anything.
RECURSIVE SkipOthers(_)
SkipOthers(ms) ==
    IF ms = << >> THEN << >>
    ELSE IF Head(ms) \in {"user", "assistant"} THEN ms
    ELSE SkipOthers(Tail(ms))

\* The loop of session_state from the messages ms on, up to its next await:
\* addUserMessage or addAssistantMessage for the first user or assistant
\* message, on which the handler is suspended; the handler returns when
\* there is none.
ReplayLoop(st, c, o, w, ev, ms) ==
    LET r == SkipOthers(ms)
    IN  IF r = << >> THEN st
        ELSE Emit([st EXCEPT !.tasks = @ (+)
                      One([Task("replay", c, o, Head(r), w, ev)
                             EXCEPT !.rest = Tail(r)])],
                  c, "replay_" \o Head(r), w, ev)

\* The loop of session_state after the await of one message.
ReplayResume(st, t) ==
    ReplayLoop([st EXCEPT !.tasks = @ (-) One(t)],
               t.chat, t.obj, t.ws, t.ev, t.rest)

\* handleWebSocketMessage without the registry lookup that returns early:
\* the branches that read or write the session throw on the missing
\* session, the others make their UI call.
HandleWebSocketMessage_NoLookup(st, c, w, ev, kind, msgs) ==
    LET o == st.sessions[c]
        Later(pc) == [st EXCEPT !.tasks = @ (+) One(Task("ws", c, o, pc, w, ev))]
    IN  CASE kind = "token" ->
               Emit(st, c, "append", w, ev)
          [] kind = "tool_start" ->
               Emit(st, c, "thinking_start", w, ev)
          [] kind = "tool_end" ->
               Emit(st, c, "thinking_end", w, ev)
          [] kind = "research_start" /\ o # 0 ->
               Emit([Later("placeholder") EXCEPT !.heap[o].status = "processing"],
                    c, "status_typing", w, ev)
          [] kind = "research_complete" /\ o # 0 ->
               Emit([Later("final") EXCEPT !.heap[o].status = "idle"],
                    c, "status_idle", w, ev)
          [] kind = "research_error" /\ o # 0 ->
               Emit([Later("error_final") EXCEPT !.heap[o].status = "error"],
                    c, "status_idle", w, ev)
          [] kind = "session_state" ->
               ReplayLoop(st, c, o, w, ev, msgs)
          [] OTHER -> st

\* The handler up to its first await, for event number ev of kind `kind`
\* that arrived on connection w of chat c.
HandleWebSocketMessage(st, c, w, ev, kind, msgs) ==
    IF ~Has(st, c) THEN st
    ELSE LET o == st.sessions[c]
             Later(pc) == [st EXCEPT !.tasks = @ (+) One(Task("ws", c, o, pc, w, ev))]
         IN  CASE kind = "token" ->
                    Emit(st, c, "append", w, ev)
               [] kind = "research_start" ->
                    Emit([Later("placeholder") EXCEPT !.heap[o].status = "processing"],
                         c, "status_typing", w, ev)
               [] kind = "tool_start" ->
                    Emit(st, c, "thinking_start", w, ev)
               [] kind = "tool_end" ->
                    Emit(st, c, "thinking_end", w, ev)
               [] kind = "research_complete" ->
                    Emit([Later("final") EXCEPT !.heap[o].status = "idle"],
                         c, "status_idle", w, ev)
               [] kind = "research_error" ->
                    Emit([Later("error_final") EXCEPT !.heap[o].status = "error"],
                         c, "status_idle", w, ev)
               [] kind = "session_state" ->
                    ReplayLoop(st, c, o, w, ev, msgs)
               [] OTHER -> st

\* ws.onmessage that closes the connection when a frame does not parse.
OnMessageHandler_CloseOnError(st, c, w, ev, frame, msgs) ==
    IF frame = "malformed"
    THEN SocketClose(st, w)
    ELSE HandleWebSocketMessage(st, c, w, ev, frame, msgs)

\* ws.onmessage for one frame, up to the first await.  JSON.parse throws on
\* a frame that is not JSON, and `data.event` throws on a frame that parses
\* to null; the handler is an async function, so the exception rejects the
\* promise it returned, which nobody awaits: nothing was changed before the
\* throw and nothing is changed by it.
OnMessageHandler(st, c, w, ev, frame, msgs) ==
    IF frame = "malformed"
    THEN st
    ELSE HandleWebSocketMessage(st, c, w, ev, frame, msgs)

\* The handler after `await webui.updateChatStatus(...)`: the second UI call
\* of research_start, research_complete and research_error.
MessageResume(st, t) ==
    Emit([st EXCEPT !.tasks = @ (-) One(t)], t.chat, t.pc, t.ws, t.ev)

\* ---------------------------------------------------- handleResearchQuery
\* handleResearchQuery without its admission check.
HandleResearchQuery_NoGate(st, c) ==
    IF st.sessions[c] = 0 THEN st
    ELSE Emit([st EXCEPT !.tasks = @ (+) One(Task("query", c, st.sessions[c], "echo", 0, 0))],
              c, "user", 0, 0)

\* Up to the first await: the admission check and the echo of the message.
HandleResearchQuery(st, c) ==
    IF ~Has(st, c) THEN st
    ELSE LET o == st.sessions[c]
         IN  IF st.heap[o].status = "processing"
             THEN Emit(st, c, "busy", 0, 0)
             ELSE Emit([st EXCEPT !.tasks = @ (+) One(Task("query", c, o, "echo", 0, 0))],
                       c, "user", 0, 0)

\* After `await webui.addUserMessage(...)`: fetch(POST /api/query) is issued.
QueryIssue(st, t) ==
    [st EXCEPT !.tasks = (@ (-) One(t)) (+) One([t EXCEPT !.pc = "post_sent"]),
               !.posts[t.chat] = @ + 1]

\* handleResearchQuery whose catch block also marks the session failed.
QueryResume_ErrorStatus(st, t) ==
    LET s1 == [st EXCEPT !.tasks = @ (-) One(t)]
    IN  IF t.pc = "resp_ok"
        THEN [s1 EXCEPT !.heap[t.obj].status = "processing"]
        ELSE Emit([s1 EXCEPT !.heap[t.obj].status = "error"],
                  t.chat, "query_error", 0, 0)

\* After `await fetch(...)`: response.ok sets the status of the session
\* object the handler holds; a rejected fetch or a response that is not ok
\* goes to the catch block.
QueryResume(st, t) ==
    LET s1 == [st EXCEPT !.tasks = @ (-) One(t)]
    IN  IF t.pc = "resp_ok"
        THEN [s1 EXCEPT !.heap[t.obj].status = "processing"]
        ELSE Emit(s1, t.chat, "query_error", 0, 0)

\* --------------------------------------------------------- cleanupSession
\* Up to `await fetch(DELETE ...)`.
CleanupSession(st, c) ==
    IF ~Has(st, c) THEN st
    ELSE LET o  == st.sessions[c]
             w  == st.heap[o].websocket
             s1 == IF w # 0 THEN SocketClose(st, w) ELSE st
         IN  [s1 EXCEPT !.tasks = @ (+) One(Task("cleanup", c, o, "delete_sent", 0, 0))]

\* cleanupSession with this.sessions.delete inside the try block.
CleanupResume_SkipOnError(st, t, outcome) ==
    IF outcome = "neterr"
    THEN [st EXCEPT !.tasks = @ (-) One(t)]
    ELSE [st EXCEPT !.tasks = @ (-) One(t), !.sessions[t.chat] = 0]

\* After the DELETE request was answered or failed: the catch block only
\* logs to the console, then this.sessions.delete(chatId).
CleanupResume(st, t, outcome) ==
    [st EXCEPT !.tasks = @ (-) One(t), !.sessions[t.chat] = 0]

Install(st) ==
    /\ sessions' = st.sessions
    /\ heap' = st.heap
    /\ sockets' = st.sockets
    /\ timers' = st.timers
    /\ tasks' = st.tasks
    /\ ui' = st.ui
    /\ lastMsg' = st.lastMsg
    /\ posts' = st.posts

Spend(what) == budget' = [budget EXCEPT ![what] = @ + 1]

Did(op, c) == last' = [op |-> op, chat |-> c]

\* ------------------------------------------------------------------ Init
Init ==
    /\ now = 0
    /\ chats = [c \in Chats |-> "free"]
    /\ sessions = [c \in Chats |-> 0]
    /\ heap = << >>
    /\ sockets = << >>
    /\ timers = EmptyBag
    /\ tasks = EmptyBag
    /\ ui = [c \in Chats |-> Call(0, "none", 0, 0)]
    /\ lastMsg = [c \in Chats |-> "none"]
    /\ posts = [c \in Chats |-> 0]
    /\ bq = [s \in Sids |-> [new |-> 0, run |-> 0]]
    /\ evCount = 0
    /\ delResult = [c \in Chats |-> [outcome |-> "none", obj |-> 0]]
    /\ budget = [submits |-> 0, deletes |-> 0, drops |-> 0, stream |-> 0,
                 frames |-> 0]
    /\ last = [op |-> "init", chat |-> 0]

\* ---------------------------------------------------------------- actions
\* Date.now() advances.
Tick ==
    /\ now < MaxClock
    /\ now' = now + 1
    /\ Did("tick", 0)
    /\ UNCHANGED <<chats, sessions, heap, sockets, timers, tasks, ui, lastMsg,
                   posts, bq, evCount, delResult, budget>>

\* createResearchChat up to `await fetch(...)`: the sessionId is taken from
\* the clock, the host creates the chat and returns a chatId it has not
\* handed out before (the identifiers are opaque: the host is taken to hand
\* them out in the order 1, 2, ...), and the provisioning request is issued.
CreateChat(c) ==
    /\ chats[c] = "free"
    /\ \A d \in 1 .. (c - 1) : chats[d] # "free"
    /\ chats' = [chats EXCEPT ![c] = "live"]
    /\ tasks' = tasks (+) One(Task("create", c, 0, "provision", 0, now))
    /\ Did("create", c)
    /\ UNCHANGED <<now, sessions, heap, sockets, timers, ui, lastMsg, posts,
                   bq, evCount, delResult, budget>>

\* createResearchChat up to `await fetch(...)` when webui.createChat returns
\* the chatId of a chat that was deleted: the plugin takes whatever
\* identifier the host returns.
ReuseChat(c) ==
    /\ chats[c] = "deleted"
    /\ chats' = [chats EXCEPT ![c] = "live"]
    /\ tasks' = tasks (+) One(Task("create", c, 0, "provision", 0, now))
    /\ Did("reuse", c)
    /\ UNCHANGED <<now, sessions, heap, sockets, timers, ui, lastMsg, posts,
                   bq, evCount, delResult, budget>>

\* createResearchChat after the provisioning request has been answered.
CreateDone(t, outcome) ==
    /\ t \in BagToSet(tasks)
    /\ t.kind = "create"
    /\ outcome = "neterr" \/ Len(sockets) < MaxSockets
    /\ Install(CreateResume([Cur EXCEPT !.tasks = @ (-) One(t)],
                            t.chat, t.ev, outcome))
    /\ Did("created_" \o outcome, t.chat)
    /\ UNCHANGED <<now, chats, bq, evCount, delResult, budget>>

\* The close event of a socket: after close() was called on it, or because
\* the network or the backend ended the connection.
OnClose(w) ==
    /\ w \in 1 .. Len(sockets)
    /\ \/ /\ sockets[w].state = "closing"
          /\ UNCHANGED budget
       \/ /\ sockets[w].state = "open"
          /\ budget.drops < MaxDrops
          /\ Spend("drops")
    /\ Install(OnCloseHandler([Cur EXCEPT !.sockets[w].state = "closed"], w))
    /\ Did("onclose", sockets[w].chat)
    /\ UNCHANGED <<now, chats, bq, evCount, delResult>>

\* The setTimeout callback of ws.onclose, 5 seconds after the close event.
TimerFire(t) ==
    /\ t \in BagToSet(timers)
    /\ sessions[t.chat] = 0 \/ Len(sockets) < MaxSockets
    /\ Install(ConnectWebSocket([Cur EXCEPT !.timers = @ (-) One(t)],
                                t.chat, t.sid))
    /\ Did("timer", t.chat)
    /\ UNCHANGED <<now, chats, bq, evCount, delResult, budget>>

\* webui 'message:send': handleResearchQuery for a research chat, the
\* host's default handling (nothing here) for any other chat.
Submit(c) ==
    /\ budget.submits < MaxSubmits
    /\ chats[c] = "live"
    /\ Install(IF Has(Cur, c) THEN HandleResearchQuery(Cur, c) ELSE Cur)
    /\ Spend("submits")
    /\ Did("submit", c)
    /\ UNCHANGED <<now, chats, bq, evCount, delResult>>

QuerySend(t) ==
    /\ t \in BagToSet(tasks)
    /\ t.kind = "query" /\ t.pc = "echo"
    /\ Install(QueryIssue(Cur, t))
    /\ Did("post", t.chat)
    /\ UNCHANGED <<now, chats, bq, evCount, delResult, budget>>

\* The backend answers POST /api/query: it admits the query (ok), refuses it
\* (bad: a response that is not 2xx), or the request fails on the network.
BackendQuery(t, outcome) ==
    /\ t \in BagToSet(tasks)
    /\ t.kind = "query" /\ t.pc = "post_sent"
    /\ LET sid == heap[t.obj].sessionId
           pc  == IF outcome = "ok" THEN "resp_ok" ELSE "resp_fail"
       IN  /\ tasks' = (tasks (-) One(t)) (+) One([t EXCEPT !.pc = pc])
           /\ bq' = IF outcome = "ok" THEN [bq EXCEPT ![sid].new = @ + 1] ELSE bq
    /\ Did("answer_" \o outcome, t.chat)
    /\ UNCHANGED <<now, chats, sessions, heap, sockets, timers, ui, lastMsg,
                   posts, evCount, delResult, budget>>

QueryDone(t) ==
    /\ t \in BagToSet(tasks)
    /\ t.kind = "query" /\ t.pc \in {"resp_ok", "resp_fail"}
    /\ Install(QueryResume(Cur, t))
    /\ Did("query_" \o t.pc, t.chat)
    /\ UNCHANGED <<now, chats, bq, evCount, delResult, budget>>

\* The backend's next event for one of its queries of session sid.
BackendStep(sid, kind) ==
    CASE kind = "research_start" ->
           /\ bq[sid].new > 0
           /\ bq' = [bq EXCEPT ![sid].new = @ - 1, ![sid].run = @ + 1]
           /\ UNCHANGED budget
      [] kind \in {"token", "tool_start", "tool_end"} ->
           /\ bq[sid].run > 0
           /\ budget.stream < MaxStream
           /\ Spend("stream")
           /\ UNCHANGED bq
      [] kind \in {"research_complete", "research_error"} ->
           /\ bq[sid].run > 0
           /\ bq' = [bq EXCEPT ![sid].run = @ - 1]
           /\ UNCHANGED budget

\* ws.onmessage: the backend sends an event on an open connection and the
\* handler runs up to its first await.
OnMessage(w, kind) ==
    /\ w \in 1 .. Len(sockets)
    /\ sockets[w].state = "open"
    /\ BackendStep(sockets[w].sid, kind)
    /\ evCount' = evCount + 1
    /\ Install(HandleWebSocketMessage(Cur, sockets[w].chat, w, evCount + 1, kind, << >>))
    /\ Did(kind, sockets[w].chat)
    /\ UNCHANGED <<now, chats, delResult>>

MessageDone(t) ==
    /\ t \in BagToSet(tasks)
    /\ t.kind = "ws"
    /\ Install(MessageResume(Cur, t))
    /\ Did(t.pc, t.chat)
    /\ UNCHANGED <<now, chats, bq, evCount, delResult, budget>>

\* The session_state handler resumes after the await of one message.
ReplayStep(t) ==
    /\ t \in BagToSet(tasks)
    /\ t.kind = "replay"
    /\ Install(ReplayResume(Cur, t))
    /\ Did("replay", t.chat)
    /\ UNCHANGED <<now, chats, bq, evCount, delResult, budget>>

\* webui 'chat:delete': cleanupSession when the chat has a registry entry.
\* The host may notify twice for one chat.
ChatDelete(c) ==
    /\ budget.deletes < MaxDeletes
    /\ chats[c] = "live" \/ sessions[c] # 0
    /\ chats' = [chats EXCEPT ![c] = "deleted"]
    /\ Install(IF Has(Cur, c) THEN CleanupSession(Cur, c) ELSE Cur)
    /\ Spend("deletes")
    /\ Did("delete", c)
    /\ UNCHANGED <<now, bq, evCount, delResult>>

CleanupDone(t, outcome) ==
    /\ t \in BagToSet(tasks)
    /\ t.kind = "cleanup"
    /\ Install(CleanupResume(Cur, t, outcome))
    /\ delResult' = [delResult EXCEPT ![t.chat] = [outcome |-> outcome, obj |-> t.obj]]
    /\ Did("deleted_" \o outcome, t.chat)
    /\ UNCHANGED <<now, chats, bq, evCount, budget>>

EventKinds == {"research_start", "token", "tool_start", "tool_end",
               "research_complete", "research_error"}

FrameKinds == EventKinds \cup {"session_state", "malformed"}

\* ws.onmessage for a frame that the query protocol does not account for: a
\* frame that does not parse, or an event of any kind at any time (a
\* connection that the plugin no longer tracks still delivers what the
\* backend sends on it).
OnFrame(w, frame, msgs) ==
    /\ w \in 1 .. Len(sockets)
    /\ sockets[w].state = "open"
    /\ frame # "session_state" => msgs = << >>
    /\ IF frame = "malformed"
       THEN UNCHANGED <<evCount, budget>>
       ELSE /\ budget.frames < MaxFrames
            /\ Spend("frames")
            /\ evCount' = evCount + 1
    /\ Install(OnMessageHandler(Cur, sockets[w].chat, w, evCount + 1, frame, msgs))
    /\ Did(frame, sockets[w].chat)
    /\ UNCHANGED <<now, chats, bq, delResult>>

Next ==
    \/ Tick
    \/ \E c \in Chats : CreateChat(c)
    \/ \E c \in Chats : ReuseChat(c)
    \/ \E t \in BagToSet(tasks), r \in {"ok", "bad", "neterr"} : CreateDone(t, r)
    \/ \E w \in 1 .. Len(sockets) : OnClose(w)
    \/ \E t \in BagToSet(timers) : TimerFire(t)
    \/ \E c \in Chats : Submit(c)
    \/ \E t \in BagToSet(tasks) : QuerySend(t)
    \/ \E t \in BagToSet(tasks), r \in {"ok", "bad", "neterr"} : BackendQuery(t, r)
    \/ \E t \in BagToSet(tasks) : QueryDone(t)
    \/ \E w \in 1 .. Len(sockets), k \in EventKinds : OnMessage(w, k)
    \/ \E w \in 1 .. Len(sockets), m \in Replays :
          \/ OnFrame(w, "malformed", m)
          \/ OnFrame(w, "session_state", m)
    \/ \E t \in BagToSet(tasks) : MessageDone(t)
    \/ \E t \in BagToSet(tasks) : ReplayStep(t)
    \/ \E c \in Chats : ChatDelete(c)
    \/ \E t \in BagToSet(tasks), r \in {"ok", "neterr"} : CleanupDone(t, r)

Spec == Init /\ [][Next]_vars

\* The admission gate and the event dispatcher on their own: chats are
\* created, queries are submitted and answered, events are streamed; no chat
\* is deleted and no connection closes.  One research chat is open (sessions
\* share nothing but the registry, whose key partitions every mutation).
NextQuery ==
    \/ \E c \in Chats : CreateChat(c) /\ \A d \in Chats : chats[d] = "free"
    \/ \E t \in BagToSet(tasks), r \in {"ok", "bad", "neterr"} : CreateDone(t, r)
    \/ \E c \in Chats : Submit(c)
    \/ \E t \in BagToSet(tasks) : QuerySend(t)
    \/ \E t \in BagToSet(tasks), r \in {"ok", "bad", "neterr"} : BackendQuery(t, r)
    \/ \E t \in BagToSet(tasks) : QueryDone(t)
    \/ \E w \in 1 .. Len(sockets), k \in EventKinds : OnMessage(w, k)
    \/ \E t \in BagToSet(tasks) : MessageDone(t)

SpecQuery == Init /\ [][NextQuery]_vars

\* The session lifecycle and the transport on their own: one research chat
\* is created and deleted, its connections close and reconnect; no query is
\* submitted.
NextLife ==
    \/ \E c \in Chats : CreateChat(c) /\ \A d \in Chats : chats[d] = "free"
    \/ \E t \in BagToSet(tasks), r \in {"ok", "bad", "neterr"} : CreateDone(t, r)
    \/ \E w \in 1 .. Len(sockets) : OnClose(w)
    \/ \E t \in BagToSet(timers) : TimerFire(t)
    \/ \E c \in Chats : ChatDelete(c)
    \/ \E t \in BagToSet(tasks), r \in {"ok", "neterr"} : CleanupDone(t, r)

SpecLife == Init /\ [][NextLife]_vars

\* Session creation on its own: research chats are created while the clock
\* advances.
NextIds ==
    \/ Tick
    \/ \E c \in Chats : CreateChat(c)
    \/ \E t \in BagToSet(tasks), r \in {"ok", "bad", "neterr"} : CreateDone(t, r)

SpecIds == Init /\ [][NextIds]_vars

\* The session lifecycle when the host hands out the chatId of a deleted
\* chat again: one chatId is registered, removed and registered again while
\* the clock advances and connections close and reconnect.
NextReuse ==
    \/ Tick
    \/ \E c \in Chats : CreateChat(c) /\ \A d \in Chats : chats[d] = "free"
    \/ \E c \in Chats : ReuseChat(c)
    \/ \E t \in BagToSet(tasks), r \in {"ok", "bad", "neterr"} : CreateDone(t, r)
    \/ \E w \in 1 .. Len(sockets) : OnClose(w)
    \/ \E t \in BagToSet(timers) : TimerFire(t)
    \/ \E c \in Chats : ChatDelete(c)
    \/ \E t \in BagToSet(tasks), r \in {"ok", "neterr"} : CleanupDone(t, r)

SpecReuse == Init /\ [][NextReuse]_vars

\* The dispatcher against any sequence of frames: one research chat is
\* open, its connection stays open and delivers frames of every kind in any
\* order.
NextFrames ==
    \/ \E c \in Chats : CreateChat(c) /\ \A d \in Chats : chats[d] = "free"
    \/ \E t \in BagToSet(tasks), r \in {"ok", "bad", "neterr"} : CreateDone(t, r)
    \/ \E w \in 1 .. Len(sockets), f \in FrameKinds, m \in Replays : OnFrame(w, f, m)
    \/ \E t \in BagToSet(tasks) : MessageDone(t)
    \/ \E t \in BagToSet(tasks) : ReplayStep(t)

SpecFrames == Init /\ [][NextFrames]_vars

\* The dispatcher against the session lifecycle: one research chat is
\* created and deleted, its connections close and reconnect, and a
\* connection that is open while the registry has no entry for its chat
\* delivers frames of every kind.
NextOrphan ==
    \/ \E c \in Chats : CreateChat(c) /\ \A d \in Chats : chats[d] = "free"
    \/ \E t \in BagToSet(tasks), r \in {"ok", "bad", "neterr"} : CreateDone(t, r)
    \/ \E w \in 1 .. Len(sockets) : OnClose(w)
    \/ \E t \in BagToSet(timers) : TimerFire(t)
    \/ \E c \in Chats : ChatDelete(c)
    \/ \E t \in BagToSet(tasks), r \in {"ok", "neterr"} : CleanupDone(t, r)
    \/ \E w \in 1 .. Len(sockets), f \in FrameKinds, m \in Replays :
          OnFrame(w, f, m) /\ sessions[sockets[w].chat] = 0

SpecOrphan == Init /\ [][NextOrphan]_vars

\* A setTimeout callback runs once its delay has elapsed.
TimerSet == [chat : Chats, sid : Sids]

SpecLifeFair ==
    SpecLife /\ WF_vars(\E t \in BagToSet(timers) : TimerFire(t))

\* ------------------------------------------------------------------ claims
Status(c) == heap[sessions[c]].status

\* POST /api/query requests of chat c's session that were issued and have
\* neither failed nor been finished by the backend with research_complete
\* or research_error.
Outstanding(c) ==
    LET o == sessions[c]
    IN  CopiesIn(Task("query", c, o, "post_sent", 0, 0), tasks)
          + bq[heap[o].sessionId].new + bq[heap[o].sessionId].run

\* Some handleResearchQuery call for chat c has not returned yet.
QueryPending(c) ==
    \E t \in BagToSet(tasks) : t.kind = "query" /\ t.chat = c

\* C1: a submit for a session whose status is processing issues no POST
\* /api/query, does not echo the user's message, leaves the status alone and
\* answers with the 'Please wait...' system message.
C1_BusyRejected ==
    [][\A c \in Chats :
          (last'.op = "submit" /\ last'.chat = c /\ sessions[c] # 0
             /\ Status(c) = "processing")
          => /\ posts' = posts
             /\ tasks' = tasks
             /\ heap' = heap
             /\ ui' = [ui EXCEPT ![c] = Call(@.n + 1, "busy", 0, 0)]]_vars

C1_Witness ==
    \E c \in Chats :
        /\ last = [op |-> "submit", chat |-> c]
        /\ sessions[c] # 0
        /\ Status(c) = "processing"
        /\ ui[c].op = "busy"

\* C2: every session has at most one backend query outstanding.
C2_AtMostOneOutstanding ==
    \A c \in Chats : sessions[c] # 0 => Outstanding(c) <= 1

\* C3 as stated: the status is idle or processing and changes only from idle
\* to processing (admitted query, research_start) and from processing to idle
\* (research_complete, research_error).
C3_OnlyIdleProcessing ==
    [][\A o \in DOMAIN heap :
          heap'[o].status # heap[o].status
          => \/ /\ heap[o].status = "idle"
                /\ heap'[o].status = "processing"
                /\ last'.op \in {"query_resp_ok", "research_start"}
             \/ /\ heap[o].status = "processing"
                /\ heap'[o].status = "idle"
                /\ last'.op \in {"research_complete", "research_error"}]_vars

\* C3 as amended: the status is idle, processing or error; it becomes
\* processing only by an admitted query or research_start, idle only by
\* research_complete, and error only by research_error.
C3_StatusTransitions ==
    [][/\ \A o \in DOMAIN heap' :
             heap'[o].status \in {"idle", "processing", "error"}
       /\ \A o \in DOMAIN heap :
             heap'[o].status # heap[o].status
             => \/ /\ heap'[o].status = "processing"
                   /\ last'.op \in {"query_resp_ok", "research_start"}
                \/ /\ heap'[o].status = "idle"
                   /\ last'.op = "research_complete"
                \/ /\ heap'[o].status = "error"
                   /\ last'.op = "research_error"]_vars

C3_Witness ==
    \E c \in Chats :
        /\ last = [op |-> "research_error", chat |-> c]
        /\ sessions[c] # 0
        /\ Status(c) = "error"

\* C4: a session with no backend query outstanding and no submit still being
\* handled is not in processing.
C4_NeverStuck ==
    \A c \in Chats :
        (sessions[c] # 0 /\ Outstanding(c) = 0 /\ ~QueryPending(c))
        => Status(c) # "processing"

OpenSockets(c) ==
    {w \in DOMAIN sockets : sockets[w].chat = c /\ sockets[w].state = "open"}

\* C5: once cleanupSession has finished for a chat, the registry has no entry
\* for it, whether the DELETE request succeeded or failed on the network; the
\* step that finishes after a failed DELETE makes no UI call.
C5_EntryRemoved ==
    [][/\ \A c \in Chats : delResult'[c].obj # 0 => sessions'[c] = 0
       /\ last'.op = "deleted_neterr" => ui' = ui]_vars

C5_Witness ==
    \E c \in Chats :
        /\ last = [op |-> "deleted_neterr", chat |-> c]
        /\ delResult[c].outcome = "neterr"
        /\ sessions[c] = 0

\* C6: once cleanupSession has finished for a chat, no connection of that
\* chat is open.
C6_NoConnectionAfterDelete ==
    \A c \in Chats : delResult[c].obj # 0 => OpenSockets(c) = {}

\* C7: once cleanupSession has finished for a session, close() has been
\* called exactly once on the session's connection.
C7_ClosedOnce ==
    \A c \in Chats :
        delResult[c].obj # 0
        => LET w == heap[delResult[c].obj].websocket
           IN  w # 0 /\ sockets[w].closeCalls = 1

\* C8: no chat ever has two open connections, and a connectWebSocket call
\* for a session that has a connection calls close() on it, leaves it not
\* open, and stores the new connection.
C8_OneListener ==
    [][/\ \A c \in Chats :
             Cardinality({w \in DOMAIN sockets' :
                            sockets'[w].chat = c /\ sockets'[w].state = "open"}) <= 1
       /\ \A c \in Chats :
             (/\ Len(sockets') > Len(sockets)
              /\ sockets'[Len(sockets')].chat = c
              /\ sessions[c] # 0
              /\ heap[sessions[c]].websocket # 0)
             => LET old == heap[sessions[c]].websocket
                IN  /\ sockets'[old].state # "open"
                    /\ sockets'[old].closeCalls = sockets[old].closeCalls + 1
                    /\ heap'[sessions[c]].websocket = Len(sockets')]_vars

C8_Witness ==
    \E c \in Chats :
        /\ last = [op |-> "timer", chat |-> c]
        /\ sessions[c] # 0
        /\ LET w == heap[sessions[c]].websocket
           IN  /\ w > 1
               /\ sockets[w].state = "open"
               /\ \E v \in 1 .. (w - 1) :
                     sockets[v].chat = c /\ sockets[v].closeCalls > 0

TimerPending(c) == \E t \in BagToSet(timers) : t.chat = c

\* C9: the close event of a connection whose chat is in the registry
\* schedules a reconnect; when the timer fires, a connection to the timer's
\* sessionId is opened and stored if the chat is in the registry, and nothing
\* is opened if it is not; and the timers scheduled for a chat all fire
\* (unless the model has no WebSocket left to construct).
C9_Reconnect ==
    /\ [][\A w \in DOMAIN sockets :
             (sockets[w].state # "closed" /\ sockets'[w].state = "closed")
             => timers' = IF sessions[sockets[w].chat] # 0
                          THEN timers (+) One([chat |-> sockets[w].chat,
                                               sid |-> sockets[w].sid])
                          ELSE timers]_vars
    /\ [][\A t \in TimerSet :
             (last'.op = "timer" /\ BagIn(t, timers) /\ timers' = timers (-) One(t))
             => IF sessions[t.chat] = 0
                THEN sockets' = sockets /\ heap' = heap
                ELSE /\ Len(sockets') = Len(sockets) + 1
                     /\ sockets'[Len(sockets')] =
                           [chat |-> t.chat, sid |-> t.sid,
                            state |-> "open", closeCalls |-> 0]
                     /\ heap'[sessions[t.chat]].websocket = Len(sockets')]_vars
    /\ \A c \in Chats :
          TimerPending(c) ~> (~TimerPending(c) \/ Len(sockets) >= MaxSockets)

C9_Witness ==
    \E c \in Chats :
        /\ last = [op |-> "timer", chat |-> c]
        /\ budget.drops > 0
        /\ budget.deletes = 0
        /\ sessions[c] # 0
        /\ LET w == heap[sessions[c]].websocket
           IN  /\ w > 1
               /\ sockets[w].state = "open"
               /\ \E v \in 1 .. (w - 1) :
                     sockets[v].chat = c /\ sockets[v].state = "closed"

\* C10: when a UI call caused by a stream event is made, no handler of an
\* earlier event of the same connection still has a UI call to make.
C10_InOrder ==
    \A c \in Chats : \A t \in BagToSet(tasks) :
        (t.kind = "ws" /\ t.chat = c /\ t.ws = ui[c].ws) => t.ev >= ui[c].ev

\* C11: a frame that does not parse changes nothing: the connection is not
\* closed, the registry, the session status and the UI are as before, and no
\* handler or timer is left behind; and a valid frame that arrives on the
\* chat's open connection right after it is dispatched (its first UI call is
\* made for it).
C11_MalformedDiscarded ==
    [][/\ last'.op = "malformed"
          => /\ sockets' = sockets
             /\ sessions' = sessions
             /\ heap' = heap
             /\ ui' = ui
             /\ tasks' = tasks
             /\ timers' = timers
       /\ \A c \in Chats :
             (/\ last = [op |-> "malformed", chat |-> c]
              /\ last'.op \in EventKinds /\ last'.chat = c
              /\ sessions[c] # 0)
             => /\ ui'[c].n = ui[c].n + 1
                /\ ui'[c].ev = evCount'
                /\ sockets[ui'[c].ws].state = "open"]_vars

C11_Witness ==
    \E c \in Chats :
        /\ last = [op |-> "malformed", chat |-> c]
        /\ sessions[c] # 0
        /\ Status(c) = "processing"
        /\ budget.frames < MaxFrames
        /\ OpenSockets(c) # {}

\* C12: while a POST /api/query that handleResearchQuery issued has not been
\* answered, the status of its session is processing.
C12_ProcessingOnceIssued ==
    \A t \in BagToSet(tasks) :
        (t.kind = "query" /\ t.pc = "post_sent")
        => heap[t.obj].status = "processing"

\* C13: when handleResearchQuery finishes for a query whose POST /api/query
\* failed (network error or a response that is not 2xx), the status of the
\* session is idle and the error system message is the call it made; and a
\* submit that follows it is admitted (its message is echoed and its POST is
\* issued).
C13_FailedQueryBackToIdle ==
    [][\A c \in Chats :
          /\ (last'.op = "query_resp_fail" /\ last'.chat = c /\ sessions'[c] # 0)
             => /\ heap'[sessions'[c]].status = "idle"
                /\ ui'[c].op = "query_error"
          /\ (/\ last = [op |-> "query_resp_fail", chat |-> c]
              /\ last' = [op |-> "submit", chat |-> c]
              /\ sessions[c] # 0)
             => ui'[c].op = "user"]_vars

\* C14: createResearchChat makes exactly one UI call once the provisioning
\* request is settled: the error system message when provisioning failed (on
\* the network, or with a response that is not a success), the welcome
\* message when it succeeded.
C14_ErrorReplacesWelcome ==
    [][\A c \in Chats :
          /\ (last'.op \in {"created_bad", "created_neterr"} /\ last'.chat = c)
             => ui'[c] = Call(ui[c].n + 1, "init_error", 0, 0)
          /\ (last'.op = "created_ok" /\ last'.chat = c)
             => ui'[c] = Call(ui[c].n + 1, "welcome", 0, 0)]_vars

\* Some handler of the given kind is suspended for chat c.
Pending(kind, c) ==
    \E t \in BagToSet(tasks) : t.kind = kind /\ t.chat = c

\* C15: a live chat whose createResearchChat has returned has a session
\* record in the registry, and a deleted chat whose cleanupSession is not
\* under way has none.
C15_OneRecordPerLiveChat ==
    \A c \in Chats :
        /\ (chats[c] = "live" /\ ~Pending("create", c)) => sessions[c] # 0
        /\ (chats[c] = "deleted" /\ ~Pending("cleanup", c)) => sessions[c] = 0

\* C16: an event of any kind that arrives for a chat that has no registry
\* entry changes nothing: no UI call, no status, no handler left suspended,
\* no connection or timer touched.
C16_DroppedWithoutEntry ==
    [][\A c \in Chats :
          (/\ last'.op \in EventKinds /\ last'.chat = c
           /\ evCount' = evCount + 1
           /\ sessions[c] = 0)
          => /\ ui' = ui
             /\ heap' = heap
             /\ sessions' = sessions
             /\ tasks' = tasks
             /\ sockets' = sockets
             /\ timers' = timers]_vars

C16_Witness ==
    \E c \in Chats :
        /\ last = [op |-> "token", chat |-> c]
        /\ chats[c] = "deleted"
        /\ delResult[c].obj # 0
        /\ sessions[c] = 0
        /\ OpenSockets(c) # {}
        /\ budget.frames = 1

\* C17: while the handler of a session_state event still has a user or
\* assistant message of its list to add, the chat's last UI call is the one
\* it is suspended on: addUserMessage for a user message, addAssistantMessage
\* for an assistant message, made for this event and no other.
C17_ReplayNotInterleaved ==
    \A t \in BagToSet(tasks) :
        (t.kind = "replay" /\ SkipOthers(t.rest) # << >>)
        => /\ ui[t.chat].op = "replay_" \o t.pc
           /\ ui[t.chat].ev = t.ev

\* C18: any two session records have different sessionIds.
C18_DistinctSessionIds ==
    \A o1, o2 \in DOMAIN heap :
        o1 # o2 => heap[o1].sessionId # heap[o2].sessionId

\* C19: when a token is appended or the final result or error is written
\* with updateLastMessage, and every research_start received so far has
\* added its placeholder, the last message of the chat (the one the call
\* addresses) is an assistant message.
C19_AppliedToAssistantMessage ==
    \A c \in Chats :
        (/\ ui[c].op \in {"append", "final", "error_final"}
         /\ \A t \in BagToSet(tasks) : ~(t.chat = c /\ t.pc = "placeholder"))
        => lastMsg[c] = "assistant"

\* C20: the connection stored in a session record is a connection to that
\* record's own sessionId.
C20_OwnSessionId ==
    \A c \in Chats :
        (sessions[c] # 0 /\ heap[sessions[c]].websocket # 0)
        => sockets[heap[sessions[c]].websocket].sid = heap[sessions[c]].sessionId

\* The connections of chat c that are connecting or open, plus the reconnect
\* timers pending for it.
ReconnectLoops(c) ==
    Cardinality(OpenSockets(c))
      + BagCardinality([t \in {x \in BagToSet(timers) : x.chat = c} |-> timers[t]])

\* C21: for every chat in the registry, the number of its connecting or
\* open connections plus the number of its pending reconnect timers is at
\* most one.
C21_OneReconnectLoop ==
    \A c \in Chats : sessions[c] # 0 => ReconnectLoops(c) <= 1

=============================================================================
